---- MODULE Spec2Model ----
(***************************************************************************)
(* A model of backend/autopilot_engine.py: the Monte Carlo projection      *)
(* engine (AutopilotEngine) and the way its caller invokes it.             *)
(*                                                                         *)
(* Numbers.  The engine computes with Python floats.  The model computes   *)
(* with exact rationals <<n, d>> (d > 0, lowest terms), so 0.15, 0.20,     *)
(* 1.20 ... are 3/20, 1/5, 6/5 ...; float rounding error is not modelled.  *)
(*                                                                         *)
(* Randomness.  random.uniform is a draw from a stream that a seed fixes.  *)
(* The stream is the sequence of draws itself: a call consumes it from     *)
(* cursor 0 and extends it with a fresh draw when it runs past its end.    *)
(***************************************************************************)
EXTENDS Integers, Sequences, FiniteSets, TLC

VARIABLES
    user_data,        \* the FinancialProfile handed to run_simulation
    scenario,         \* the scenario string handed to run_simulation
    mode,             \* the mode string handed to run_simulation
    duration_months,  \* the duration handed to run_simulation
    iterations,       \* AutopilotEngine.iterations (self.iterations)
    sampler,          \* "uniform": random.uniform; "nominal": a sampler returning its input
    pc,               \* position: idle (no call running), loop (run_simulation), month (an iteration)
    calls,            \* number of run_simulation calls started so far
    i,                \* loop index of run_simulation (iterations completed in this call)
    month,            \* loop index of _simulate_single_iteration
    balance,          \* local balance of the running iteration
    goal_progress,    \* local goal_progress dict of the running iteration
    results,          \* local results list of run_simulation
    log,              \* what the last simulated month computed
    stream,           \* the seeded random stream: the draws made so far
    cursor,           \* how many draws of the stream this call has consumed
    returned          \* outcomes of the completed calls, oldest first

vars == <<user_data, scenario, mode, duration_months, iterations, sampler, pc, calls,
          i, month, balance, goal_progress, results, log, stream, cursor, returned>>

----------------------------------------------------------------------------
(* Exact rational arithmetic standing for Python's float arithmetic.       *)

Abs(x) == IF x < 0 THEN -x ELSE x

RECURSIVE GCD(_, _)
GCD(a, b) == IF b = 0 THEN a ELSE GCD(b, a % b)

\* n/d in lowest terms with a positive denominator (d # 0)
Rat(n, d) ==
    LET g == GCD(Abs(n), Abs(d))
        s == IF d < 0 THEN -1 ELSE 1
    IN  <<(s * n) \div g, (s * d) \div g>>

R(n) == <<n, 1>>
Zero == R(0)
One == R(1)

LCM(a, b) == (a \div GCD(a, b)) * b

RAdd(x, y) ==
    LET l == LCM(x[2], y[2])
    IN  Rat(x[1] * (l \div x[2]) + y[1] * (l \div y[2]), l)

RNeg(x) == <<-x[1], x[2]>>
RSub(x, y) == RAdd(x, RNeg(y))

RMul(x, y) ==
    LET a == Rat(x[1], y[2])
        b == Rat(y[1], x[2])
    IN  <<a[1] * b[1], a[2] * b[2]>>

\* x / y for y # 0
RDiv(x, y) == RMul(x, Rat(y[2], y[1]))

RLess(x, y) == RSub(x, y)[1] < 0
RLeq(x, y) == RSub(x, y)[1] <= 0
RMin(x, y) == IF RLess(y, x) THEN y ELSE x
RMax(x, y) == IF RLess(x, y) THEN y ELSE x

\* sum, min and max of s[lo..hi], halving the range (lo <= hi for min and max)
RECURSIVE RSumRange(_, _, _)
RSumRange(s, lo, hi) ==
    IF lo > hi THEN Zero
    ELSE IF lo = hi THEN s[lo]
    ELSE LET mid == (lo + hi) \div 2
         IN  RAdd(RSumRange(s, lo, mid), RSumRange(s, mid + 1, hi))

RECURSIVE RMinRange(_, _, _)
RMinRange(s, lo, hi) ==
    IF lo = hi THEN s[lo]
    ELSE LET mid == (lo + hi) \div 2
         IN  RMin(RMinRange(s, lo, mid), RMinRange(s, mid + 1, hi))

RECURSIVE RMaxRange(_, _, _)
RMaxRange(s, lo, hi) ==
    IF lo = hi THEN s[lo]
    ELSE LET mid == (lo + hi) \div 2
         IN  RMax(RMaxRange(s, lo, mid), RMaxRange(s, mid + 1, hi))

\* sum(s), min(s), max(s) of a list (min and max of a list that is not empty)
RSum(s) == RSumRange(s, 1, Len(s))
RMinSeq(s) == RMinRange(s, 1, Len(s))
RMaxSeq(s) == RMaxRange(s, 1, Len(s))

----------------------------------------------------------------------------
(* Program constants.                                                      *)

\* self.iterations = 1000
DefaultIterations == 1000
\* the overdraft limit: if balance < -1000: balance = -1000
OverdraftLimit == 1000
\* noise_factor 0.15, in percent
NoisePercent == 15

----------------------------------------------------------------------------
(* The leaves: the perturbation sampler, the scenario model, the policy.   *)

\* random.uniform(-noise_factor, noise_factor): the values a draw can take, cut
\* down to the two ends of the range.  "nominal" is the sampler a test
\* substitutes: it returns its input unchanged, which is a draw of 0.
Uniform(noise_percent) ==
    IF sampler = "nominal" THEN {Zero}
    ELSE {Rat(-noise_percent, 100), Rat(noise_percent, 100)}

\* _perturb: value * (1 + noise)
Perturb(value, noise) == RMul(value, RAdd(One, noise))

\* _apply_scenario with the windfall paid in the first month instead of month 4
ApplyScenario_WindfallAtStart(sc, m, income, expenses) ==
    IF sc = "job_loss" THEN
        IF 3 <= m /\ m < 6 THEN <<Zero, expenses>> ELSE <<income, expenses>>
    ELSE IF sc = "market_dip" THEN
        IF 2 <= m /\ m < 8 THEN <<income, RMul(expenses, Rat(120, 100))>>
        ELSE <<income, expenses>>
    ELSE IF sc = "big_purchase" THEN
        IF m = 6 THEN <<income, RAdd(expenses, RMul(income, Rat(15, 10)))>>
        ELSE <<income, expenses>>
    ELSE IF sc = "windfall" THEN
        IF m = 0 THEN <<RAdd(income, RMul(income, R(3))), expenses>>
        ELSE <<income, expenses>>
    ELSE <<income, expenses>>

\* _apply_scenario with the job-loss window closed one month late (3 <= month <= 6)
ApplyScenario_LongJobLoss(sc, m, income, expenses) ==
    IF sc = "job_loss" THEN
        IF 3 <= m /\ m <= 6 THEN <<Zero, expenses>> ELSE <<income, expenses>>
    ELSE IF sc = "market_dip" THEN
        IF 2 <= m /\ m < 8 THEN <<income, RMul(expenses, Rat(120, 100))>>
        ELSE <<income, expenses>>
    ELSE IF sc = "big_purchase" THEN
        IF m = 6 THEN <<income, RAdd(expenses, RMul(income, Rat(15, 10)))>>
        ELSE <<income, expenses>>
    ELSE IF sc = "windfall" THEN
        IF m = 4 THEN <<RAdd(income, RMul(income, R(3))), expenses>>
        ELSE <<income, expenses>>
    ELSE <<income, expenses>>

\* _apply_scenario with the big purchase sized on the expenses instead of the income
ApplyScenario_PurchaseOnExpenses(sc, m, income, expenses) ==
    IF sc = "job_loss" THEN
        IF 3 <= m /\ m < 6 THEN <<Zero, expenses>> ELSE <<income, expenses>>
    ELSE IF sc = "market_dip" THEN
        IF 2 <= m /\ m < 8 THEN <<income, RMul(expenses, Rat(120, 100))>>
        ELSE <<income, expenses>>
    ELSE IF sc = "big_purchase" THEN
        IF m = 6 THEN <<income, RAdd(expenses, RMul(expenses, Rat(15, 10)))>>
        ELSE <<income, expenses>>
    ELSE IF sc = "windfall" THEN
        IF m = 4 THEN <<RAdd(income, RMul(income, R(3))), expenses>>
        ELSE <<income, expenses>>
    ELSE <<income, expenses>>

\* _apply_scenario: (income, expenses) after the scenario's effect in this month
ApplyScenario(sc, m, income, expenses) ==
    IF sc = "job_loss" THEN
        IF 3 <= m /\ m < 6 THEN <<Zero, expenses>> ELSE <<income, expenses>>
    ELSE IF sc = "market_dip" THEN
        IF 2 <= m /\ m < 8 THEN <<income, RMul(expenses, Rat(120, 100))>>
        ELSE <<income, expenses>>
    ELSE IF sc = "big_purchase" THEN
        IF m = 6 THEN <<income, RAdd(expenses, RMul(income, Rat(15, 10)))>>
        ELSE <<income, expenses>>
    ELSE IF sc = "windfall" THEN
        IF m = 4 THEN <<RAdd(income, RMul(income, R(3))), expenses>>
        ELSE <<income, expenses>>
    ELSE <<income, expenses>>

\* _apply_autopilot_rules returning the savings as computed, without max(savings, 0)
ApplyAutopilotRules_Unclamped(md, income, expenses, bal, progress) ==
    LET savings ==
            IF md = "conservative" THEN RMul(income, Rat(20, 100))
            ELSE IF md = "balanced" THEN
                IF RLess(expenses, income) THEN RMul(RSub(income, expenses), Rat(25, 100))
                ELSE Zero
            ELSE IF md = "experimental" THEN
                RAdd(RMul(income, Rat(25, 100)), RMul(expenses, Rat(5, 100)))
            ELSE Zero
        exp2 == IF md = "conservative" THEN RSub(expenses, savings) ELSE expenses
    IN  <<income, exp2, savings>>

\* _apply_autopilot_rules returning min(savings, 0) for max(savings, 0)
ApplyAutopilotRules_MinClamp(md, income, expenses, bal, progress) ==
    LET savings ==
            IF md = "conservative" THEN RMul(income, Rat(20, 100))
            ELSE IF md = "balanced" THEN
                IF RLess(expenses, income) THEN RMul(RSub(income, expenses), Rat(25, 100))
                ELSE Zero
            ELSE IF md = "experimental" THEN
                RAdd(RMul(income, Rat(25, 100)), RMul(expenses, Rat(5, 100)))
            ELSE Zero
        exp2 == IF md = "conservative" THEN RSub(expenses, savings) ELSE expenses
    IN  <<income, exp2, RMin(savings, Zero)>>

\* _apply_autopilot_rules taking the savings of every mode out of the cash flow
ApplyAutopilotRules_DeductsSavings(md, income, expenses, bal, progress) ==
    LET savings ==
            IF md = "conservative" THEN RMul(income, Rat(20, 100))
            ELSE IF md = "balanced" THEN
                IF RLess(expenses, income) THEN RMul(RSub(income, expenses), Rat(25, 100))
                ELSE Zero
            ELSE IF md = "experimental" THEN
                RAdd(RMul(income, Rat(25, 100)), RMul(expenses, Rat(5, 100)))
            ELSE Zero
        exp2 == IF md = "conservative" THEN RSub(expenses, savings)
                ELSE RAdd(expenses, savings)
    IN  <<income, exp2, RMax(savings, Zero)>>

\* _apply_autopilot_rules treating the conservative savings as a transfer out
ApplyAutopilotRules_TransfersOut(md, income, expenses, bal, progress) ==
    LET savings ==
            IF md = "conservative" THEN RMul(income, Rat(20, 100))
            ELSE IF md = "balanced" THEN
                IF RLess(expenses, income) THEN RMul(RSub(income, expenses), Rat(25, 100))
                ELSE Zero
            ELSE IF md = "experimental" THEN
                RAdd(RMul(income, Rat(25, 100)), RMul(expenses, Rat(5, 100)))
            ELSE Zero
        exp2 == IF md = "conservative" THEN RAdd(expenses, savings) ELSE expenses
    IN  <<income, exp2, RMax(savings, Zero)>>

\* _apply_autopilot_rules: (income, expenses, max(savings, 0))
ApplyAutopilotRules(md, income, expenses, bal, progress) ==
    LET savings ==
            IF md = "conservative" THEN RMul(income, Rat(20, 100))
            ELSE IF md = "balanced" THEN
                IF RLess(expenses, income) THEN RMul(RSub(income, expenses), Rat(25, 100))
                ELSE Zero
            ELSE IF md = "experimental" THEN
                RAdd(RMul(income, Rat(25, 100)), RMul(expenses, Rat(5, 100)))
            ELSE Zero
        exp2 == IF md = "conservative" THEN RSub(expenses, savings) ELSE expenses
    IN  <<income, exp2, RMax(savings, Zero)>>

----------------------------------------------------------------------------
(* The iteration simulator (_simulate_single_iteration).                   *)

\* an iteration that goes on from the balance the previous one ended with
StartingBalance_Carried(ud) == balance

\* starting_balance = user_data.get("current_balance", 0); balance = starting_balance
StartingBalance(ud) == ud.current_balance

\* a goal_progress dict that is built once and kept from one iteration to the next
InitialGoalProgress_Carried(goals) ==
    IF goal_progress # <<>> THEN goal_progress
    ELSE [id \in {goals[k].id : k \in DOMAIN goals} |->
            LET last == CHOOSE k \in DOMAIN goals :
                            /\ goals[k].id = id
                            /\ \A j \in DOMAIN goals : goals[j].id = id => j <= k
            IN  goals[last].current_amount]

\* goal_progress = {g["id"]: g.get("current_amount", 0) for g in goals}:
\* a dict keyed by id, so of two goals with one id the later one wins
InitialGoalProgress(goals) ==
    [id \in {goals[k].id : k \in DOMAIN goals} |->
        LET last == CHOOSE k \in DOMAIN goals :
                        /\ goals[k].id = id
                        /\ \A j \in DOMAIN goals : goals[j].id = id => j <= k
        IN  goals[last].current_amount]

\* a distribution that passes over the goals already at or above their target
DistributeSavings_SkipsFundedGoals(progress, savings, goals) ==
    IF RLess(Zero, savings) /\ goals # <<>>
    THEN [id \in DOMAIN progress |->
            LET goal == goals[CHOOSE k \in DOMAIN goals : goals[k].id = id]
            IN  IF RLeq(goal.target_amount, progress[id]) THEN progress[id]
                ELSE RAdd(progress[id], RDiv(savings, R(Len(goals))))]
    ELSE progress

\* if savings > 0 and goals: every entry of goal_progress gets savings / len(goals)
DistributeSavings(progress, savings, goals) ==
    IF RLess(Zero, savings) /\ goals # <<>>
    THEN [id \in DOMAIN progress |-> RAdd(progress[id], RDiv(savings, R(Len(goals))))]
    ELSE progress

\* a month loop without the overdraft limit
OverdraftFloor_Off(bal) == bal

\* if balance < -1000: balance = -1000
OverdraftFloor(bal) ==
    IF RLess(bal, R(-OverdraftLimit)) THEN R(-OverdraftLimit) ELSE bal

\* a month loop that applies the policy to the perturbed values and the scenario after it
MonthStep_PolicyFirst(ud, sc, md, m, bal, progress, n1, n2) ==
    LET income0 == Perturb(ud.avg_monthly_income, n1)
        expenses0 == Perturb(ud.avg_monthly_expenses, n2)
        first == ApplyAutopilotRules(md, income0, expenses0, bal, progress)
        scen == ApplyScenario(sc, m, first[1], first[2])
        pol == <<scen[1], scen[2], first[3]>>
        raw == RAdd(bal, RSub(pol[1], pol[2]))
    IN  [month |-> m,
         noise |-> <<n1, n2>>,
         perturbed |-> <<income0, expenses0>>,
         scenario_out |-> scen,
         income |-> pol[1],
         expenses |-> pol[2],
         savings |-> pol[3],
         balance_before |-> bal,
         progress_before |-> progress,
         raw_balance |-> raw,
         progress |-> DistributeSavings(progress, pol[3], ud.goals),
         balance |-> OverdraftFloor(raw)]

\* a month loop that contributes nothing to the goals in a month that hits the floor
MonthStep_NoSavingsAtFloor(ud, sc, md, m, bal, progress, n1, n2) ==
    LET income0 == Perturb(ud.avg_monthly_income, n1)
        expenses0 == Perturb(ud.avg_monthly_expenses, n2)
        scen == ApplyScenario(sc, m, income0, expenses0)
        pol == ApplyAutopilotRules(md, scen[1], scen[2], bal, progress)
        raw == RAdd(bal, RSub(pol[1], pol[2]))
    IN  [month |-> m,
         noise |-> <<n1, n2>>,
         perturbed |-> <<income0, expenses0>>,
         scenario_out |-> scen,
         income |-> pol[1],
         expenses |-> pol[2],
         savings |-> pol[3],
         balance_before |-> bal,
         progress_before |-> progress,
         raw_balance |-> raw,
         progress |-> (IF RLess(raw, R(-OverdraftLimit)) THEN progress
                       ELSE DistributeSavings(progress, pol[3], ud.goals)),
         balance |-> OverdraftFloor(raw)]

\* one pass of the month loop, with noise draws n1 (income) and n2 (expenses)
MonthStep(ud, sc, md, m, bal, progress, n1, n2) ==
    LET income0 == Perturb(ud.avg_monthly_income, n1)
        expenses0 == Perturb(ud.avg_monthly_expenses, n2)
        scen == ApplyScenario(sc, m, income0, expenses0)
        pol == ApplyAutopilotRules(md, scen[1], scen[2], bal, progress)
        raw == RAdd(bal, RSub(pol[1], pol[2]))
    IN  [month |-> m,
         noise |-> <<n1, n2>>,
         perturbed |-> <<income0, expenses0>>,
         scenario_out |-> scen,
         income |-> pol[1],
         expenses |-> pol[2],
         savings |-> pol[3],
         balance_before |-> bal,
         progress_before |-> progress,
         raw_balance |-> raw,
         progress |-> DistributeSavings(progress, pol[3], ud.goals),
         balance |-> OverdraftFloor(raw)]

\* current / target raises ZeroDivisionError when a goal's target_amount is 0
DivisionFails(goals) == \E k \in DOMAIN goals : goals[k].target_amount = Zero

\* min(current / target, 1.0) for one goal (target # 0)
GoalRatio(goal, progress) ==
    RMin(RDiv(progress[goal.id], goal.target_amount), One)

\* a completion that counts a profile without goals as complete
GoalCompletion_EmptyIsComplete(goals, progress) ==
    IF goals = <<>> THEN One
    ELSE RDiv(RSum([k \in DOMAIN goals |-> GoalRatio(goals[k], progress)]),
              R(Len(goals)))

\* goal_completion: 0 without goals, else the mean of the goals' capped ratios
GoalCompletion(goals, progress) ==
    IF goals = <<>> THEN Zero
    ELSE RDiv(RSum([k \in DOMAIN goals |-> GoalRatio(goals[k], progress)]),
              R(Len(goals)))

----------------------------------------------------------------------------
(* Strings: str.lower(), the substring test "x in s", and the format       *)
(* specification :.0f.                                                     *)

UpperCase == "ABCDEFGHIJKLMNOPQRSTUVWXYZ"
LowerCase == "abcdefghijklmnopqrstuvwxyz"

CharAt(s, k) == SubSeq(s, k, k)

\* the lower-case letter of every upper-case letter
LowerOf ==
    [c \in {CharAt(UpperCase, k) : k \in 1..Len(UpperCase)} |->
        CharAt(LowerCase, CHOOSE k \in 1..Len(UpperCase) : CharAt(UpperCase, k) = c)]

LowerChar(c) == IF c \in DOMAIN LowerOf THEN LowerOf[c] ELSE c

\* s.lower()
RECURSIVE Lower(_)
Lower(s) ==
    IF Len(s) = 0 THEN ""
    ELSE LowerChar(CharAt(s, 1)) \o Lower(SubSeq(s, 2, Len(s)))

\* s.startswith(t) for t in s
Contains_AtStart(s, t) == Len(t) <= Len(s) /\ SubSeq(s, 1, Len(t)) = t

\* t in s
Contains(s, t) ==
    \E k \in 1..(Len(s) - Len(t) + 1) : SubSeq(s, k, k + Len(t) - 1) = t

\* the integer nearest to x, a tie going to the even one
RoundHalfEven(x) ==
    LET fl == x[1] \div x[2]
        twice == 2 * (x[1] - fl * x[2])
    IN  IF twice < x[2] THEN fl
        ELSE IF twice > x[2] THEN fl + 1
        ELSE IF fl % 2 = 0 THEN fl ELSE fl + 1

\* f"{x:.0f}": a negative x that rounds to zero prints as -0
FormatNoDecimals(x) ==
    IF x[1] < 0 /\ RoundHalfEven(x) = 0 THEN "-0" ELSE ToString(RoundHalfEven(x))

----------------------------------------------------------------------------
(* The recommendation generator and the rule synthesizer.                  *)

\* the two suggestions of the scenario
ScenarioRecommendations(sc, avg_income) ==
    IF sc = "job_loss" THEN
        << "Build emergency fund to cover 6 months of expenses ($"
             \o FormatNoDecimals(RMul(RMul(avg_income, Rat(7, 10)), R(6))) \o ")",
           "Auto-pause non-essential subscriptions if income drops below threshold" >>
    ELSE IF sc = "market_dip" THEN
        << "Auto-invest surplus during market dips for long-term gains",
           "Set spending alerts to avoid panic purchases" >>
    ELSE IF sc = "big_purchase" THEN
        << "Create sinking fund goal for planned big purchases",
           "Auto-transfer bonus/windfall income to purchase fund" >>
    ELSE IF sc = "windfall" THEN
        << "Auto-allocate 50% of windfalls to emergency fund",
           "Auto-invest 30% of windfalls into index funds" >>
    ELSE <<>>

\* the two suggestions of the mode
ModeRecommendations(md) ==
    IF md = "conservative" THEN
        << "Sweep paycheck surplus into Emergency Goal until target reached",
           "Alert if discretionary spending exceeds 15% of income" >>
    ELSE IF md = "balanced" THEN
        << "Round up transactions to nearest $10, invest difference",
           "Auto-contribute 10% of bonuses to retirement goal" >>
    ELSE IF md = "experimental" THEN
        << "Dynamic budget reallocation: shift unused budgets to investments",
           "Auto-submit bill negotiation requests for recurring services" >>
    ELSE <<>>

\* a goal-based suggestion given only when some progress was measured: 0 < mean < 0.5
GoalRecommendations_OnlyWithProgress(goal_completions) ==
    IF /\ goal_completions # <<>>
       /\ RLess(Zero, RDiv(RSum(goal_completions), R(Len(goal_completions))))
       /\ RLess(RDiv(RSum(goal_completions), R(Len(goal_completions))), Rat(5, 10))
    THEN << "Increase automatic goal contributions by 5% monthly" >>
    ELSE <<>>

\* the goal-based suggestion: if goal_completions and mean(goal_completions) < 0.5
GoalRecommendations(goal_completions) ==
    IF /\ goal_completions # <<>>
       /\ RLess(RDiv(RSum(goal_completions), R(Len(goal_completions))), Rat(5, 10))
    THEN << "Increase automatic goal contributions by 5% monthly" >>
    ELSE <<>>

\* s[:k]
Prefix(s, k) == SubSeq(s, 1, IF Len(s) < k THEN Len(s) ELSE k)

\* _generate_recommendations returning recommendations[:4]
GenerateRecommendations_TopFour(ud, sc, md, median_balance, goal_completions) ==
    Prefix(ScenarioRecommendations(sc, ud.avg_monthly_income)
             \o ModeRecommendations(md)
             \o GoalRecommendations(goal_completions), 4)

\* _generate_recommendations with the blocks of the mode and the scenario swapped
GenerateRecommendations_ModeFirst(ud, sc, md, median_balance, goal_completions) ==
    Prefix(ModeRecommendations(md)
             \o ScenarioRecommendations(sc, ud.avg_monthly_income)
             \o GoalRecommendations(goal_completions), 5)

\* _generate_recommendations
GenerateRecommendations(ud, sc, md, median_balance, goal_completions) ==
    Prefix(ScenarioRecommendations(sc, ud.avg_monthly_income)
             \o ModeRecommendations(md)
             \o GoalRecommendations(goal_completions), 5)

\* _generate_rules with the round-up rule given to every mode
GenerateRules_RoundUpForAll(ud, md, recommendations) ==
    (IF md \in {"conservative", "balanced"}
     THEN << [rule_name |-> "Paycheck Surplus Sweep",
              condition |-> [type |-> "paycheck_surplus",
                             threshold |-> RMul(ud.avg_monthly_income, Rat(11, 10))],
              action |-> [type |-> "sweep_to_goal", target |-> "emergency_fund",
                          percentage |-> 80],
              mode |-> md] >>
     ELSE <<>>)
    \o
    (IF md \in {"conservative", "balanced", "experimental"}
     THEN << [rule_name |-> "Round-Up Micro-Investing",
              condition |-> [type |-> "transaction_complete",
                             category |-> "discretionary"],
              action |-> [type |-> "round_up_invest", round_to |-> 10,
                          target_account |-> "investment"],
              mode |-> md] >>
     ELSE <<>>)
    \o
    (IF md = "conservative"
     THEN << [rule_name |-> "Spending Spike Protection",
              condition |-> [type |-> "spending_spike", threshold |-> 130],
              action |-> [type |-> "freeze_subscription", duration_days |-> 14],
              mode |-> md] >>
     ELSE <<>>)

\* _generate_rules
GenerateRules(ud, md, recommendations) ==
    (IF md \in {"conservative", "balanced"}
     THEN << [rule_name |-> "Paycheck Surplus Sweep",
              condition |-> [type |-> "paycheck_surplus",
                             threshold |-> RMul(ud.avg_monthly_income, Rat(11, 10))],
              action |-> [type |-> "sweep_to_goal", target |-> "emergency_fund",
                          percentage |-> 80],
              mode |-> md] >>
     ELSE <<>>)
    \o
    (IF md \in {"balanced", "experimental"}
     THEN << [rule_name |-> "Round-Up Micro-Investing",
              condition |-> [type |-> "transaction_complete",
                             category |-> "discretionary"],
              action |-> [type |-> "round_up_invest", round_to |-> 10,
                          target_account |-> "investment"],
              mode |-> md] >>
     ELSE <<>>)
    \o
    (IF md = "conservative"
     THEN << [rule_name |-> "Spending Spike Protection",
              condition |-> [type |-> "spending_spike", threshold |-> 130],
              action |-> [type |-> "freeze_subscription", duration_days |-> 14],
              mode |-> md] >>
     ELSE <<>>)

\* the filter without a.lower(): x in a or y in a
ActionsMentioning_CaseSensitive(recommended_actions, x, y) ==
    SelectSeq(recommended_actions, LAMBDA a : Contains(a, x) \/ Contains(a, y))

\* [a for a in recommended_actions if x in a.lower() or y in a.lower()]
ActionsMentioning(recommended_actions, x, y) ==
    SelectSeq(recommended_actions,
              LAMBDA a : LET lowered == Lower(a)
                         IN  Contains(lowered, x) \/ Contains(lowered, y))

----------------------------------------------------------------------------
(* The Monte Carlo aggregator (run_simulation).                            *)

\* percentiles read from the balances in the order they were collected
SortedBalances_Unsorted(final_balances) == final_balances

\* sorted(final_balances)
SortedBalances(final_balances) == SortSeq(final_balances, RLess)

\* the index taken as a share of the last index, int(p * (len - 1))
PercentileIndex_OfLastIndex(percent, n) == (percent * (n - 1)) \div 100

\* int(p * len(sorted_balances)) for p = percent / 100; a 0-based index
PercentileIndex(percent, n) == (percent * n) \div 100

\* sorted_balances[index] with Python's 0-based index
At(s, index) == s[index + 1]

FinalBalances(res) == [k \in DOMAIN res |-> res[k].final_balance]
GoalCompletions(res) == [k \in DOMAIN res |-> res[k].goal_completion]

\* the aggregator listing the bands in the order best, median, worst
AggregateResult_BestBandFirst(ud, sc, md, res) ==
    LET sorted_balances == SortedBalances(FinalBalances(res))
        goal_completions == GoalCompletions(res)
        n == Len(sorted_balances)
        median_balance == At(sorted_balances, PercentileIndex(50, n))
        worst_case_balance == At(sorted_balances, PercentileIndex(10, n))
        best_case_balance == At(sorted_balances, PercentileIndex(90, n))
        recommended_actions ==
            GenerateRecommendations(ud, sc, md, median_balance, goal_completions)
    IN  [scenarios |->
            << [outcome |-> "Best Case (90th Percentile)",
                probability |-> Rat(10, 100),
                recommended_actions |->
                    ActionsMentioning(recommended_actions, "invest", "grow"),
                final_balance |-> best_case_balance,
                goal_completion_rate |-> RMaxSeq(goal_completions)],
               [outcome |-> "Expected Case (Median)",
                probability |-> Rat(50, 100),
                recommended_actions |-> Prefix(recommended_actions, 3),
                final_balance |-> median_balance,
                goal_completion_rate |->
                    RDiv(RSum(goal_completions), R(Len(goal_completions)))],
               [outcome |-> "Worst Case (10th Percentile)",
                probability |-> Rat(10, 100),
                recommended_actions |->
                    ActionsMentioning(recommended_actions, "emergency", "protect"),
                final_balance |-> worst_case_balance,
                goal_completion_rate |-> RMinSeq(goal_completions)] >>,
         median_final_balance |-> median_balance,
         worst_case_balance |-> worst_case_balance,
         best_case_balance |-> best_case_balance,
         recommended_rules |-> GenerateRules(ud, md, recommended_actions)]

\* the aggregator reading each band's rate from the iteration at its percentile index
AggregateResult_RatesAtPercentiles(ud, sc, md, res) ==
    LET sorted_balances == SortedBalances(FinalBalances(res))
        goal_completions == GoalCompletions(res)
        n == Len(sorted_balances)
        by_balance == SortSeq(res, LAMBDA a, b : RLess(a.final_balance, b.final_balance))
        median_balance == At(sorted_balances, PercentileIndex(50, n))
        worst_case_balance == At(sorted_balances, PercentileIndex(10, n))
        best_case_balance == At(sorted_balances, PercentileIndex(90, n))
        recommended_actions ==
            GenerateRecommendations(ud, sc, md, median_balance, goal_completions)
    IN  [scenarios |->
            << [outcome |-> "Worst Case (10th Percentile)",
                probability |-> Rat(10, 100),
                recommended_actions |->
                    ActionsMentioning(recommended_actions, "emergency", "protect"),
                final_balance |-> worst_case_balance,
                goal_completion_rate |->
                    At(by_balance, PercentileIndex(10, n)).goal_completion],
               [outcome |-> "Expected Case (Median)",
                probability |-> Rat(50, 100),
                recommended_actions |-> Prefix(recommended_actions, 3),
                final_balance |-> median_balance,
                goal_completion_rate |->
                    At(by_balance, PercentileIndex(50, n)).goal_completion],
               [outcome |-> "Best Case (90th Percentile)",
                probability |-> Rat(10, 100),
                recommended_actions |->
                    ActionsMentioning(recommended_actions, "invest", "grow"),
                final_balance |-> best_case_balance,
                goal_completion_rate |->
                    At(by_balance, PercentileIndex(90, n)).goal_completion] >>,
         median_final_balance |-> median_balance,
         worst_case_balance |-> worst_case_balance,
         best_case_balance |-> best_case_balance,
         recommended_rules |-> GenerateRules(ud, md, recommended_actions)]

\* the dict run_simulation returns (results is not empty)
AggregateResult(ud, sc, md, res) ==
    LET sorted_balances == SortedBalances(FinalBalances(res))
        goal_completions == GoalCompletions(res)
        n == Len(sorted_balances)
        median_balance == At(sorted_balances, PercentileIndex(50, n))
        worst_case_balance == At(sorted_balances, PercentileIndex(10, n))
        best_case_balance == At(sorted_balances, PercentileIndex(90, n))
        recommended_actions ==
            GenerateRecommendations(ud, sc, md, median_balance, goal_completions)
    IN  [scenarios |->
            << [outcome |-> "Worst Case (10th Percentile)",
                probability |-> Rat(10, 100),
                recommended_actions |->
                    ActionsMentioning(recommended_actions, "emergency", "protect"),
                final_balance |-> worst_case_balance,
                goal_completion_rate |-> RMinSeq(goal_completions)],
               [outcome |-> "Expected Case (Median)",
                probability |-> Rat(50, 100),
                recommended_actions |-> Prefix(recommended_actions, 3),
                final_balance |-> median_balance,
                goal_completion_rate |->
                    RDiv(RSum(goal_completions), R(Len(goal_completions)))],
               [outcome |-> "Best Case (90th Percentile)",
                probability |-> Rat(10, 100),
                recommended_actions |->
                    ActionsMentioning(recommended_actions, "invest", "grow"),
                final_balance |-> best_case_balance,
                goal_completion_rate |-> RMaxSeq(goal_completions)] >>,
         median_final_balance |-> median_balance,
         worst_case_balance |-> worst_case_balance,
         best_case_balance |-> best_case_balance,
         recommended_rules |-> GenerateRules(ud, md, recommended_actions)]

----------------------------------------------------------------------------
(* Bounds of the model and the inputs it is run on.                        *)

\* iterations of the runs with the uniform sampler: 0..MaxIterations
MaxIterations == 3
\* calls of run_simulation in one behaviour
MaxCalls == 2

Scenarios == {"job_loss", "market_dip", "big_purchase", "windfall"}
Modes == {"conservative", "balanced", "experimental"}
\* what the endpoint can forward: SimulateRequest.scenario and .mode are plain str
ScenarioNames == Scenarios \cup {"recession"}
ModeNames == Modes \cup {"aggressive"}

Goal(id, target, current) ==
    [id |-> id, target_amount |-> R(target), current_amount |-> R(current)]

Profile(bal, income, expenses, goals) ==
    [current_balance |-> R(bal), avg_monthly_income |-> R(income),
     avg_monthly_expenses |-> R(expenses), goals |-> goals]

\* goal lists: none; one open goal; one open and one already over its target;
\* a negative current_amount; a zero target; a negative target; one id twice
GoalLists ==
    { <<>>,
      <<Goal(1, 10000, 0)>>,
      <<Goal(1, 10000, 2000), Goal(2, 500, 1000)>>,
      <<Goal(1, 1000, -500)>>,
      <<Goal(1, 0, 100)>>,
      <<Goal(1, -1000, 500), Goal(2, 2000, 0)>>,
      <<Goal(1, 1000, 0), Goal(1, 2000, 100)>> }

\* (current_balance, avg_monthly_income, avg_monthly_expenses)
Money == { <<1000, 4000, 3000>>, <<-2000, 0, 3000>>, <<5000, 4000, 6000>> }

\* every pairing of the two, and a profile whose income average is negative
\* (the endpoint sums the amounts of the income transactions as they are)
NominalProfiles ==
    { Profile(m[1], m[2], m[3], g) : m \in Money, g \in GoalLists }
    \cup { Profile(0, -1000, 2000, <<Goal(1, 10000, 0)>>) }

UniformProfiles ==
    { Profile(1000, 4000, 3000, <<Goal(1, 10000, 2000), Goal(2, 500, 1000)>>),
      Profile(-2000, 0, 3000, <<Goal(1, 10000, 0)>>),
      Profile(5000, 4000, 6000, <<>>) }

Config(ud, sc, md, d, n, smp) ==
    [user_data |-> ud, scenario |-> sc, mode |-> md, duration_months |-> d,
     iterations |-> n, sampler |-> smp]

\* runs with random noise: short, so that every draw sequence is explored.
\* One month (or none, or a negative duration) in each of 0..MaxIterations
\* iterations and two months once, under windfall (no scenario acts before
\* month 2, so one name stands for all), and three months once under
\* market_dip, which acts in month 2.  A mode name no branch knows gets a
\* single iteration: with it the policy does nothing in any month.
UniformConfigs ==
    { Config(ud, "windfall", md, dn[1], dn[2], "uniform") :
        ud \in UniformProfiles, md \in Modes,
        dn \in ({-1, 0, 1} \X (0..MaxIterations)) \cup {<<2, 1>>} }
    \cup
    { Config(ud, "windfall", md, d, 1, "uniform") :
        ud \in UniformProfiles, md \in ModeNames \ Modes, d \in {-1, 0, 1, 2} }
    \cup
    { Config(ud, "market_dip", md, 3, 1, "uniform") :
        ud \in UniformProfiles, md \in ModeNames }

\* runs with the nominal sampler: a single month and a year
NominalConfigs ==
    { Config(ud, sc, md, d, 1, "nominal") :
        ud \in NominalProfiles, sc \in ScenarioNames, md \in ModeNames,
        d \in {1, 12} }

\* the engine as constructed (self.iterations = 1000) on the profile of the
\* end-to-end example
DefaultConfigs ==
    { Config(Profile(1000, 4000, 3000, <<>>), "windfall", "balanced", 1,
             DefaultIterations, "nominal") }

Configs == UniformConfigs \cup NominalConfigs \cup DefaultConfigs

----------------------------------------------------------------------------
(* The state machine.                                                      *)

\* log before any month of the iteration has been simulated
NoMonth == [month |-> -1]

Init ==
    /\ \E c \in Configs :
        /\ user_data = c.user_data
        /\ scenario = c.scenario
        /\ mode = c.mode
        /\ duration_months = c.duration_months
        /\ iterations = c.iterations
        /\ sampler = c.sampler
    /\ pc = "idle"
    /\ calls = 0
    /\ i = 0
    /\ month = 0
    /\ balance = Zero
    /\ goal_progress = <<>>
    /\ results = <<>>
    /\ log = NoMonth
    /\ stream = <<>>
    /\ cursor = 0
    /\ returned = <<>>

inputs == <<user_data, scenario, mode, duration_months, iterations, sampler>>

\* the values the next draw of the stream can take
NextDraw ==
    IF cursor < Len(stream) THEN {stream[cursor + 1]} ELSE Uniform(NoisePercent)

\* the caller seeds the random source and calls run_simulation: results = []
Call ==
    /\ pc = "idle"
    /\ calls < MaxCalls
    /\ calls' = calls + 1
    /\ pc' = "loop"
    /\ i' = 0
    /\ results' = <<>>
    /\ cursor' = 0
    /\ UNCHANGED <<inputs, month, balance, goal_progress, log, stream, returned>>

\* for i in range(self.iterations): enter _simulate_single_iteration
StartIteration ==
    /\ pc = "loop"
    /\ i < iterations
    /\ pc' = "month"
    /\ month' = 0
    /\ balance' = StartingBalance(user_data)
    /\ goal_progress' = InitialGoalProgress(user_data.goals)
    /\ log' = NoMonth
    /\ UNCHANGED <<inputs, calls, i, results, stream, cursor, returned>>

\* a month loop that adds the savings to the goals of user_data themselves
SimulateMonth_WritesBack ==
    /\ pc = "month"
    /\ month < duration_months
    /\ \E n1 \in NextDraw :
        LET stream1 == IF cursor < Len(stream) THEN stream ELSE Append(stream, n1)
        IN  \E n2 \in (IF cursor + 1 < Len(stream1) THEN {stream1[cursor + 2]}
                       ELSE Uniform(NoisePercent)) :
            LET step == MonthStep(user_data, scenario, mode, month, balance,
                                  goal_progress, n1, n2)
            IN  /\ stream' = (IF cursor + 1 < Len(stream1) THEN stream1
                              ELSE Append(stream1, n2))
                /\ cursor' = cursor + 2
                /\ log' = step
                /\ balance' = step.balance
                /\ goal_progress' = step.progress
                /\ user_data' =
                     [user_data EXCEPT !.goals =
                        [k \in DOMAIN user_data.goals |->
                            [user_data.goals[k] EXCEPT
                                !.current_amount = step.progress[user_data.goals[k].id]]]]
    /\ month' = month + 1
    /\ UNCHANGED <<scenario, mode, duration_months, iterations, sampler,
                   pc, calls, i, results, returned>>

\* one pass of: for month in range(duration_months)
SimulateMonth ==
    /\ pc = "month"
    /\ month < duration_months
    /\ \E n1 \in NextDraw :
        LET stream1 == IF cursor < Len(stream) THEN stream ELSE Append(stream, n1)
        IN  \E n2 \in (IF cursor + 1 < Len(stream1) THEN {stream1[cursor + 2]}
                       ELSE Uniform(NoisePercent)) :
            LET step == MonthStep(user_data, scenario, mode, month, balance,
                                  goal_progress, n1, n2)
            IN  /\ stream' = (IF cursor + 1 < Len(stream1) THEN stream1
                              ELSE Append(stream1, n2))
                /\ cursor' = cursor + 2
                /\ log' = step
                /\ balance' = step.balance
                /\ goal_progress' = step.progress
    /\ month' = month + 1
    /\ UNCHANGED <<inputs, pc, calls, i, results, returned>>

\* the loop is over: compute goal_completion, return, results.append(sim_result)
FinishIteration ==
    /\ pc = "month"
    /\ month >= duration_months
    /\ ~DivisionFails(user_data.goals)
    /\ results' = Append(results,
                         [final_balance |-> balance,
                          goal_completion |-> GoalCompletion(user_data.goals, goal_progress)])
    /\ i' = i + 1
    /\ pc' = "loop"
    /\ UNCHANGED <<inputs, calls, month, balance, goal_progress, log, stream, cursor, returned>>

\* a loop that catches the error of an iteration and records an empty sample
RaiseZeroDivision_RecordsSample ==
    /\ pc = "month"
    /\ month >= duration_months
    /\ DivisionFails(user_data.goals)
    /\ results' = Append(results, [final_balance |-> balance, goal_completion |-> Zero])
    /\ i' = i + 1
    /\ pc' = "loop"
    /\ UNCHANGED <<inputs, calls, month, balance, goal_progress, log, stream, cursor, returned>>

\* current / target raises; nothing catches it inside the engine
RaiseZeroDivision ==
    /\ pc = "month"
    /\ month >= duration_months
    /\ DivisionFails(user_data.goals)
    /\ returned' = Append(returned, [error |-> "ZeroDivisionError"])
    /\ pc' = "idle"
    /\ UNCHANGED <<inputs, calls, i, month, balance, goal_progress, results, log, stream, cursor>>

\* all iterations ran: aggregate and return the result
Aggregate ==
    /\ pc = "loop"
    /\ i >= iterations
    /\ results # <<>>
    /\ returned' = Append(returned, AggregateResult(user_data, scenario, mode, results))
    /\ pc' = "idle"
    /\ UNCHANGED <<inputs, calls, i, month, balance, goal_progress, results, log, stream, cursor>>

\* sorted_balances[p50_index] on an empty list raises IndexError
RaiseIndexError ==
    /\ pc = "loop"
    /\ i >= iterations
    /\ results = <<>>
    /\ returned' = Append(returned, [error |-> "IndexError"])
    /\ pc' = "idle"
    /\ UNCHANGED <<inputs, calls, i, month, balance, goal_progress, results, log, stream, cursor>>

Next ==
    \/ Call
    \/ StartIteration
    \/ SimulateMonth
    \/ FinishIteration
    \/ RaiseZeroDivision
    \/ Aggregate
    \/ RaiseIndexError

Spec == Init /\ [][Next]_vars

----------------------------------------------------------------------------
(* Vocabulary of the properties.                                           *)

IsResult(o) == "scenarios" \in DOMAIN o
IsError(o) == "error" \in DOMAIN o

\* the outcomes of the completed calls that are AggregateResults
Returned == {returned[k] : k \in DOMAIN returned}
ReturnedResults == {o \in Returned : IsResult(o)}

\* a month of the running iteration has been simulated, and log describes it
MonthSimulated == log.month >= 0

\* an iteration of this call has returned; LastOutcome is what it returned.
\* Every element of results is the last one in the state that appended it, so
\* an invariant about LastOutcome speaks about every iteration.
IterationReturned == results # <<>>
LastOutcome == results[Len(results)]

----------------------------------------------------------------------------
(* C1: in a run with duration_months >= 1 the balance at the end of every  *)
(* simulated month is >= -1000, whatever the starting balance, so every    *)
(* iteration's final_balance and the three reported percentile balances    *)
(* are >= -1000.                                                           *)
C1_BalanceNeverBelowFloor ==
    /\ MonthSimulated => /\ RLeq(R(-1000), log.balance)
                         /\ balance = log.balance
    /\ duration_months >= 1 =>
        /\ IterationReturned => RLeq(R(-1000), LastOutcome.final_balance)
        /\ \A o \in ReturnedResults :
            /\ RLeq(R(-1000), o.worst_case_balance)
            /\ RLeq(R(-1000), o.median_final_balance)
            /\ RLeq(R(-1000), o.best_case_balance)

\* a run that starts below the floor, is lifted to it by the first month, stays
\* exactly at it in a later month and reports it as its worst case
C1_Witness ==
    /\ RLess(user_data.current_balance, R(-1000))
    /\ log.month >= 1
    /\ RLess(log.raw_balance, R(-1000))
    /\ log.balance_before = R(-1000)
    /\ balance = R(-1000)
    /\ \E o \in ReturnedResults : o.worst_case_balance = R(-1000)

(* C2: every iteration's goal_completion lies in [0,1], for any goals.     *)
(* The code divides by a negative target and starts from a negative        *)
(* current_amount without clamping, so this fails.                         *)
C2_GoalCompletionInUnitInterval ==
    IterationReturned =>
        /\ RLeq(Zero, LastOutcome.goal_completion)
        /\ RLeq(LastOutcome.goal_completion, One)

\* the run of the end-to-end example: noise disabled, windfall, balanced, 1 month
C3_Example ==
    /\ user_data = Profile(1000, 4000, 3000, <<>>)
    /\ scenario = "windfall"
    /\ mode = "balanced"
    /\ duration_months = 1
    /\ sampler = "nominal"

(* C3 as stated: in the example run month 0 has income 16000, the final    *)
(* balance is 14000 and all three percentile balances are 14000.           *)
C3_AsStated ==
    C3_Example =>
        /\ MonthSimulated => log.income = R(16000) /\ log.balance = R(14000)
        /\ IterationReturned => LastOutcome.final_balance = R(14000)
        /\ \A o \in ReturnedResults :
            /\ o.worst_case_balance = R(14000)
            /\ o.median_final_balance = R(14000)
            /\ o.best_case_balance = R(14000)

(* C3 amended: the windfall acts in month 4 only, so in the example run    *)
(* month 0 has income 4000, the final balance is 1000 + 4000 - 3000 = 2000 *)
(* and all three percentile balances are 2000.                             *)
C3_ExampleWithoutWindfall ==
    C3_Example =>
        /\ MonthSimulated =>
            /\ log.month = 0
            /\ log.income = R(4000)
            /\ log.expenses = R(3000)
            /\ log.balance = R(2000)
        /\ IterationReturned => LastOutcome.final_balance = R(2000)
        /\ \A o \in ReturnedResults :
            /\ o.worst_case_balance = R(2000)
            /\ o.median_final_balance = R(2000)
            /\ o.best_case_balance = R(2000)

\* the example run has simulated its month 0 and returned
C3_Witness ==
    /\ C3_Example
    /\ log.month = 0
    /\ log.scenario_out = <<R(4000), R(3000)>>
    /\ ReturnedResults # {}

\* what section 7 of the specification calls InvalidConfig
InvalidConfig ==
    \/ scenario \notin Scenarios
    \/ mode \notin Modes
    \/ duration_months <= 0
    \/ iterations <= 0

(* C4: a call with an unknown scenario or mode name, a non-positive        *)
(* duration_months or non-positive iterations ends in an error and returns *)
(* no AggregateResult.  The engine validates nothing, so this fails.       *)
C4_InvalidConfigIsRejected ==
    InvalidConfig => \A o \in Returned : IsError(o)

\* the completion the specification wants: a goal with target_amount <= 0
\* counts as 1.0, every other goal as min(progress / target, 1.0)
C5_IntendedCompletion(goals, progress) ==
    RDiv(RSum([k \in DOMAIN goals |->
                 IF RLeq(goals[k].target_amount, Zero) THEN One
                 ELSE GoalRatio(goals[k], progress)]),
         R(Len(goals)))

(* C5: a goal whose target_amount is <= 0 never makes the simulation       *)
(* raise and counts as 100% complete in every iteration.  The code divides *)
(* by the target as it is, so this fails.                                  *)
C5_DegenerateGoalCountsAsComplete ==
    (\E k \in DOMAIN user_data.goals : RLeq(user_data.goals[k].target_amount, Zero)) =>
        /\ \A o \in Returned : ~IsError(o) \/ o.error # "ZeroDivisionError"
        /\ (pc = "loop" /\ IterationReturned) =>
              LastOutcome.goal_completion
                = C5_IntendedCompletion(user_data.goals, goal_progress)

\* the number of collected balances below v, and at or below v
CountBelow(res, v) == Cardinality({k \in DOMAIN res : RLess(res[k].final_balance, v)})
CountUpTo(res, v) == Cardinality({k \in DOMAIN res : RLeq(res[k].final_balance, v)})

\* v is the element at 0-based index idx of the ascending sort of the balances
IsOrderStatistic(res, idx, v) ==
    /\ \E k \in DOMAIN res : res[k].final_balance = v
    /\ CountBelow(res, v) <= idx
    /\ idx < CountUpTo(res, v)

\* the engine's aggregation of the 1000 balances 0..999, collected out of order
\* (the k-th collected balance is 7 * k mod 1000)
C6_Synthetic ==
    AggregateResult(Profile(0, 0, 0, <<>>), "windfall", "balanced",
        [k \in 1..DefaultIterations |->
            [final_balance |-> R((7 * k) % DefaultIterations), goal_completion |-> Zero]])

(* C6: with n collected balances, the worst, median and best balance are   *)
(* the elements at indices floor(0.10 n), floor(0.50 n) and floor(0.90 n)  *)
(* of their ascending sort, an element of the list itself and never out of *)
(* range; for the 1000 values 0..999 they are 100, 500 and 900.            *)
C6_NearestRankPercentiles ==
    /\ (pc = "idle" /\ returned # <<>> /\ IsResult(returned[Len(returned)])) =>
        LET o == returned[Len(returned)]
            n == Len(results)
        IN  /\ n >= 1
            /\ (9 * n) \div 10 < n
            /\ IsOrderStatistic(results, n \div 10, o.worst_case_balance)
            /\ IsOrderStatistic(results, n \div 2, o.median_final_balance)
            /\ IsOrderStatistic(results, (9 * n) \div 10, o.best_case_balance)
    /\ C6_Synthetic.worst_case_balance = R(100)
    /\ C6_Synthetic.median_final_balance = R(500)
    /\ C6_Synthetic.best_case_balance = R(900)

\* three iterations whose balances differ, collected in descending order
C6_Witness ==
    /\ pc = "idle"
    /\ Len(results) = 3
    /\ RLess(results[3].final_balance, results[2].final_balance)
    /\ RLess(results[2].final_balance, results[1].final_balance)
    /\ \E o \in ReturnedResults :
        /\ o.worst_case_balance = results[3].final_balance
        /\ o.median_final_balance = results[2].final_balance
        /\ o.best_case_balance = results[1].final_balance

(* C7: for any run with iterations >= 3, worst_case_balance <=             *)
(* median_final_balance <= best_case_balance.                              *)
C7_PercentilesOrdered ==
    iterations >= 3 =>
        \A o \in ReturnedResults :
            /\ RLeq(o.worst_case_balance, o.median_final_balance)
            /\ RLeq(o.median_final_balance, o.best_case_balance)

\* three iterations, the smallest balance collected last, strictly ordered bands
C7_Witness ==
    /\ iterations = 3
    /\ Len(results) = 3
    /\ RLess(results[3].final_balance, results[1].final_balance)
    /\ \E o \in ReturnedResults :
        /\ RLess(o.worst_case_balance, o.median_final_balance)
        /\ RLess(o.median_final_balance, o.best_case_balance)

(* C8: for a profile with an empty goals list every iteration's            *)
(* goal_completion is 0 and the goal_completion_rate of the worst, median  *)
(* and best bands are all 0, and nothing divides by zero.                  *)
C8_NoGoalsCompletionZero ==
    user_data.goals = <<>> =>
        /\ IterationReturned => LastOutcome.goal_completion = Zero
        /\ \A o \in Returned :
            IF IsResult(o)
            THEN \A b \in 1..3 : o.scenarios[b].goal_completion_rate = Zero
            ELSE o.error # "ZeroDivisionError"

\* a run without goals over several iterations and at least one month has returned
C8_Witness ==
    /\ user_data.goals = <<>>
    /\ duration_months >= 1
    /\ Len(results) >= 2
    /\ ReturnedResults # {}

(* C9: two calls of run_simulation with identical profile, scenario, mode  *)
(* and duration and the same seed (the same sequence of noise draws)       *)
(* return identical results.                                               *)
C9_SameSeedSameResult ==
    \A k \in DOMAIN returned : returned[k] = returned[1]

\* two calls on random noise have returned a result whose bands differ
C9_Witness ==
    /\ Len(returned) = 2
    /\ sampler = "uniform"
    /\ IsResult(returned[2])
    /\ RLess(returned[2].worst_case_balance, returned[2].best_case_balance)

\* the run of the scenario-window test: job_loss over 12 months without noise
C10_JobLossYear ==
    /\ scenario = "job_loss"
    /\ duration_months = 12
    /\ sampler = "nominal"
    /\ MonthSimulated

(* C10: under job_loss over 12 months without noise, the income used in a  *)
(* month is 0 in months 3, 4 and 5 and the nominal income in every other   *)
(* month 0..11, and the scenario leaves the expenses as they were.         *)
C10_JobLossWindow ==
    C10_JobLossYear =>
        /\ log.month \in 0..11
        /\ log.month \in 3..5 => log.scenario_out[1] = Zero /\ log.income = Zero
        /\ log.month \notin 3..5 =>
            /\ log.scenario_out[1] = user_data.avg_monthly_income
            /\ log.income = user_data.avg_monthly_income
        /\ log.scenario_out[2] = log.perturbed[2]
        /\ log.scenario_out[2] = user_data.avg_monthly_expenses

\* month 5, the last month of the window, of a profile with a positive income
C10_Witness ==
    /\ C10_JobLossYear
    /\ log.month = 5
    /\ user_data.avg_monthly_income = R(4000)
    /\ log.income = Zero

\* what the scenario table of the specification gives for month m
C11_Table(sc, m, income, expenses) ==
    IF sc = "market_dip" /\ m \in 2..7 THEN <<income, RMul(Rat(6, 5), expenses)>>
    ELSE IF sc = "big_purchase" /\ m = 6
        THEN <<income, RAdd(expenses, RMul(Rat(3, 2), income))>>
    ELSE IF sc = "windfall" /\ m = 4 THEN <<RMul(R(4), income), expenses>>
    ELSE <<income, expenses>>

(* C11: the scenario model follows the scenario table for market_dip,      *)
(* big_purchase and windfall: expenses x 1.20 in months 2..7, expenses +   *)
(* 1.5 x income in month 6, income + 3 x income in month 4, and in every   *)
(* other month (also past the simulated ones) both values unchanged.       *)
C11_ScenarioTable ==
    (MonthSimulated /\ scenario \in {"market_dip", "big_purchase", "windfall"}) =>
        /\ log.scenario_out
             = C11_Table(scenario, log.month, log.perturbed[1], log.perturbed[2])
        /\ log.income = log.scenario_out[1]
        /\ pc = "month" =>
             \A m \in 0..14 :
                 ApplyScenario(scenario, m, log.perturbed[1], log.perturbed[2])
                   = C11_Table(scenario, m, log.perturbed[1], log.perturbed[2])

\* the three effects, each in the last month of its window, on non-zero amounts
C11_Witness ==
    /\ MonthSimulated
    /\ user_data.avg_monthly_income = R(4000)
    /\ \/ /\ scenario = "market_dip" /\ log.month = 7
          /\ log.scenario_out = <<R(4000), RMul(Rat(6, 5), user_data.avg_monthly_expenses)>>
       \/ /\ scenario = "big_purchase" /\ log.month = 6
          /\ log.scenario_out[2] = RAdd(user_data.avg_monthly_expenses, R(6000))
       \/ /\ scenario = "windfall" /\ log.month = 4
          /\ log.scenario_out[1] = R(16000)

\* the savings of the policy table of the specification, clamped at 0
C12_Table(md, income, expenses) ==
    LET savings ==
            IF md = "conservative" THEN RMul(Rat(1, 5), income)
            ELSE IF md = "balanced" THEN
                IF RLess(expenses, income)
                THEN RMul(Rat(1, 4), RSub(income, expenses)) ELSE Zero
            ELSE RAdd(RMul(Rat(1, 4), income), RMul(Rat(1, 20), expenses))
    IN  IF RLess(savings, Zero) THEN Zero ELSE savings

ResultReturned ==
    /\ pc = "idle"
    /\ returned # <<>>
    /\ IsResult(returned[Len(returned)])
LastResult == returned[Len(returned)]

(* C13: every AggregateResult has exactly three bands, in the order worst, *)
(* median, best, and the final_balance of each band is the top-level field *)
(* of its percentile: worst_case_balance, median_final_balance and         *)
(* best_case_balance.                                                      *)
C13_ThreeBandsMatchTopLevel ==
    \A o \in ReturnedResults :
        /\ Len(o.scenarios) = 3
        /\ o.scenarios[1].outcome = "Worst Case (10th Percentile)"
        /\ o.scenarios[2].outcome = "Expected Case (Median)"
        /\ o.scenarios[3].outcome = "Best Case (90th Percentile)"
        /\ o.scenarios[1].final_balance = o.worst_case_balance
        /\ o.scenarios[2].final_balance = o.median_final_balance
        /\ o.scenarios[3].final_balance = o.best_case_balance

\* a result whose three percentile balances differ from one another
C13_Witness ==
    \E o \in ReturnedResults :
        /\ RLess(o.scenarios[1].final_balance, o.scenarios[2].final_balance)
        /\ RLess(o.scenarios[2].final_balance, o.scenarios[3].final_balance)

(* C14: the goal_completion_rate of the worst band is the minimum of all   *)
(* iterations' goal_completion, that of the median band their arithmetic   *)
(* mean, that of the best band their maximum, over the whole run and not   *)
(* read from the iterations at the percentile indices.                     *)
C14_BandRatesOverWholeRun ==
    ResultReturned =>
        LET worst == LastResult.scenarios[1].goal_completion_rate
            mean == LastResult.scenarios[2].goal_completion_rate
            best == LastResult.scenarios[3].goal_completion_rate
        IN  /\ \E k \in DOMAIN results : results[k].goal_completion = worst
            /\ \A k \in DOMAIN results : RLeq(worst, results[k].goal_completion)
            /\ \E k \in DOMAIN results : results[k].goal_completion = best
            /\ \A k \in DOMAIN results : RLeq(results[k].goal_completion, best)
            /\ RMul(mean, R(Len(results))) = RSum(GoalCompletions(results))

\* a run where no iteration with the worst band's balance has the worst band's
\* rate, and the mean is the rate of no iteration at all
C14_Witness ==
    /\ ResultReturned
    /\ \A k \in DOMAIN results :
        /\ results[k].final_balance = LastResult.worst_case_balance =>
              RLess(LastResult.scenarios[1].goal_completion_rate,
                    results[k].goal_completion)
        /\ results[k].goal_completion # LastResult.scenarios[2].goal_completion_rate

\* the lower-case word occurs in a, whatever the case of a's letters
C15_Mentions(a, word) ==
    \E k \in 1..(Len(a) - Len(word) + 1) :
        \A j \in 1..Len(word) : LowerChar(CharAt(a, k + j - 1)) = CharAt(word, j)

\* the one recommendation list the call that returned last was built from
SharedRecommendations ==
    GenerateRecommendations(user_data, scenario, mode,
                            LastResult.median_final_balance, GoalCompletions(results))

(* C15: each band's recommended_actions comes from the one shared list, in *)
(* its order: the worst band keeps exactly the entries containing          *)
(* "emergency" or "protect", the best band exactly those containing        *)
(* "invest" or "grow", both whatever the case of the letters, and the      *)
(* median band is the first 3 entries.                                     *)
C15_BandActionsFromSharedList ==
    ResultReturned =>
        LET shared == SharedRecommendations
        IN  /\ LastResult.scenarios[1].recommended_actions
                 = SelectSeq(shared, LAMBDA a : \/ C15_Mentions(a, "emergency")
                                               \/ C15_Mentions(a, "protect"))
            /\ LastResult.scenarios[3].recommended_actions
                 = SelectSeq(shared, LAMBDA a : \/ C15_Mentions(a, "invest")
                                               \/ C15_Mentions(a, "grow"))
            /\ LastResult.scenarios[2].recommended_actions
                 = [k \in 1..(IF Len(shared) < 3 THEN Len(shared) ELSE 3) |-> shared[k]]

\* windfall under conservative: the worst band keeps an entry that matches only
\* when its capital letter is lowered, and the list is longer than the median band
C15_Witness ==
    /\ ResultReturned
    /\ Len(SharedRecommendations) = 5
    /\ LastResult.scenarios[1].recommended_actions
         = << "Auto-allocate 50% of windfalls to emergency fund",
              "Sweep paycheck surplus into Emergency Goal until target reached" >>
    /\ LastResult.scenarios[2].recommended_actions
         = << "Auto-allocate 50% of windfalls to emergency fund",
              "Auto-invest 30% of windfalls into index funds",
              "Sweep paycheck surplus into Emergency Goal until target reached" >>
    /\ LastResult.scenarios[3].recommended_actions
         = << "Auto-invest 30% of windfalls into index funds" >>

(* C16: the recommendation list has at most 5 entries in a fixed order:    *)
(* the two suggestions of the scenario, then the two of the mode, then the *)
(* goal-based suggestion last, present exactly when the mean of the        *)
(* iterations' goal_completion is below 0.5.                               *)
C16_RecommendationOrder ==
    (ResultReturned /\ scenario \in Scenarios /\ mode \in Modes) =>
        LET recs == SharedRecommendations
            of_scenario == ScenarioRecommendations(scenario, user_data.avg_monthly_income)
            of_mode == ModeRecommendations(mode)
            \* mean < 0.5, as sum < n / 2
            low == RLess(RSum(GoalCompletions(results)), Rat(Len(results), 2))
        IN  /\ Len(of_scenario) = 2
            /\ Len(of_mode) = 2
            /\ Len(recs) = (IF low THEN 5 ELSE 4)
            /\ <<recs[1], recs[2]>> = of_scenario
            /\ <<recs[3], recs[4]>> = of_mode
            /\ low => recs[5] = "Increase automatic goal contributions by 5% monthly"
            /\ \A k \in 1..4 : recs[k] # "Increase automatic goal contributions by 5% monthly"
            /\ LastResult.scenarios[2].recommended_actions = <<recs[1], recs[2], recs[3]>>

\* job_loss under balanced on an income of 4000 with a goal far from its target
C16_Witness ==
    /\ ResultReturned
    /\ SharedRecommendations
         = << "Build emergency fund to cover 6 months of expenses ($16800)",
              "Auto-pause non-essential subscriptions if income drops below threshold",
              "Round up transactions to nearest $10, invest difference",
              "Auto-contribute 10% of bonuses to retirement goal",
              "Increase automatic goal contributions by 5% monthly" >>

\* the rule names of an AggregateResult, in order
C17_RuleNames(o) == [k \in DOMAIN o.recommended_rules |-> o.recommended_rules[k].rule_name]

(* C17: the rules are, in order, Paycheck Surplus Sweep and Spending Spike *)
(* Protection for conservative, Paycheck Surplus Sweep and Round-Up        *)
(* Micro-Investing for balanced, Round-Up Micro-Investing for              *)
(* experimental, whatever was simulated; every rule's mode is the          *)
(* requested mode and the sweep's threshold is avg_monthly_income x 1.1.   *)
C17_RulesByMode ==
    \A o \in ReturnedResults :
        /\ mode = "conservative" =>
             C17_RuleNames(o) = <<"Paycheck Surplus Sweep", "Spending Spike Protection">>
        /\ mode = "balanced" =>
             C17_RuleNames(o) = <<"Paycheck Surplus Sweep", "Round-Up Micro-Investing">>
        /\ mode = "experimental" => C17_RuleNames(o) = <<"Round-Up Micro-Investing">>
        /\ \A k \in DOMAIN o.recommended_rules :
            /\ o.recommended_rules[k].mode = mode
            /\ o.recommended_rules[k].rule_name = "Paycheck Surplus Sweep" =>
                 o.recommended_rules[k].condition.threshold
                   = RMul(Rat(11, 10), user_data.avg_monthly_income)

\* a conservative run on an income of 4000: the sweep's threshold is 4400
C17_Witness ==
    /\ mode = "conservative"
    /\ \E o \in ReturnedResults :
        /\ Len(o.recommended_rules) = 2
        /\ o.recommended_rules[1].condition.threshold = R(4400)
        /\ o.recommended_rules[2].rule_name = "Spending Spike Protection"

\* goal k is the one goal_progress keeps under its id (the last with that id)
KeptGoal(k) ==
    \A j \in DOMAIN user_data.goals :
        user_data.goals[j].id = user_data.goals[k].id => j <= k

(* C18: run_simulation leaves the profile (balance, averages, every goal's *)
(* current_amount and target_amount) and the engine's iteration count as   *)
(* they were, over any number of calls, and every iteration of every call  *)
(* starts from the profile's balance and the goals' current_amount.        *)
C18_InputsUnchanged ==
    [][ /\ user_data' = user_data
        /\ iterations' = iterations
        /\ (pc' = "month" /\ month' = 0) =>
              /\ balance' = user_data.current_balance
              /\ \A k \in DOMAIN user_data.goals :
                    KeptGoal(k) =>
                      goal_progress'[user_data.goals[k].id]
                        = user_data.goals[k].current_amount
      ]_vars

\* a second call has returned a result, and the iteration it ran last moved its
\* balance and its goal progress away from the profile's
C18_Witness ==
    /\ Len(returned) = 2
    /\ ResultReturned
    /\ user_data.goals # <<>>
    /\ balance # user_data.current_balance
    /\ \A k \in DOMAIN user_data.goals :
          RLess(user_data.goals[k].current_amount, goal_progress[user_data.goals[k].id])

(* C19: a call has no partial result: it ends in one outcome; if an        *)
(* iteration fails the call fails and returns no AggregateResult; a        *)
(* returned result was computed over exactly `iterations` samples.         *)
C19_NoPartialResults ==
    /\ pc = "idle" => Len(returned) = calls
    /\ DivisionFails(user_data.goals) => \A o \in Returned : IsError(o)
    /\ ResultReturned =>
        /\ Len(results) = iterations
        /\ i = iterations
        /\ iterations >= 1

\* a call whose iteration simulated its months and then failed: an error, no result
C19_Witness ==
    /\ pc = "idle"
    /\ iterations >= 1
    /\ MonthSimulated
    /\ results = <<>>
    /\ returned = << [error |-> "ZeroDivisionError"] >>

\* no two goals of the profile share an id
UniqueGoalIds ==
    \A j, k \in DOMAIN user_data.goals :
        user_data.goals[j].id = user_data.goals[k].id => j = k

(* C20: in a month with savings > 0 and at least one goal (ids unique)     *)
(* every goal's progress grows by exactly savings / len(goals), also a     *)
(* goal at or above its target, so the progress added that month sums to   *)
(* the savings; the cap at 1.0 is applied only where the ratio is read.    *)
C20_SavingsSplitEvenly ==
    UniqueGoalIds =>
        /\ (MonthSimulated /\ RLess(Zero, log.savings) /\ user_data.goals # <<>>) =>
            LET goals == user_data.goals
                share == RDiv(log.savings, R(Len(goals)))
            IN  /\ \A k \in DOMAIN goals :
                    log.progress[goals[k].id]
                      = RAdd(log.progress_before[goals[k].id], share)
                /\ RSum([k \in DOMAIN goals |->
                            RSub(log.progress[goals[k].id],
                                 log.progress_before[goals[k].id])]) = log.savings
                /\ goal_progress = log.progress
        /\ (pc = "loop" /\ IterationReturned
              /\ \A k \in DOMAIN user_data.goals :
                    RLess(Zero, user_data.goals[k].target_amount)) =>
            RMul(LastOutcome.goal_completion, R(Len(user_data.goals)))
              = RSum([k \in DOMAIN user_data.goals |->
                        LET goal == user_data.goals[k]
                        IN  IF RLeq(goal.target_amount, goal_progress[goal.id]) THEN One
                            ELSE RDiv(goal_progress[goal.id], goal.target_amount)])

\* a later month adds the share to a goal that was already above its target
C20_Witness ==
    /\ UniqueGoalIds
    /\ MonthSimulated
    /\ log.month >= 1
    /\ RLess(Zero, log.savings)
    /\ \E k \in DOMAIN user_data.goals :
        LET goal == user_data.goals[k]
        IN  /\ RLess(goal.target_amount, log.progress_before[goal.id])
            /\ RLess(log.progress_before[goal.id], log.progress[goal.id])
            /\ Len(user_data.goals) = 2

(* C21: the savings of every month of every trajectory are >= 0, so no     *)
(* goal's progress decreases from one month to the next, whatever the      *)
(* scenario, the mode, the income and the expenses.                        *)
C21_ProgressNeverDecreases ==
    (pc = "month" /\ MonthSimulated) =>
        /\ RLeq(Zero, log.savings)
        /\ DOMAIN log.progress = DOMAIN log.progress_before
        /\ \A id \in DOMAIN log.progress :
              RLeq(log.progress_before[id], log.progress[id])
        /\ goal_progress = log.progress

\* a later month that runs a deficit on no income and still adds to every goal
C21_Witness ==
    /\ MonthSimulated
    /\ log.month >= 1
    /\ log.income = Zero
    /\ RLess(log.income, log.expenses)
    /\ user_data.goals # <<>>
    /\ \A id \in DOMAIN log.progress : RLess(log.progress_before[id], log.progress[id])

(* C22: the policy returns the income as it got it in every mode and the   *)
(* expenses as it got them in balanced and experimental mode, so there the *)
(* balance changes by income - expenses before the floor, whatever the     *)
(* savings: they raise the goal progress and are not taken from the        *)
(* balance.                                                                *)
C22_PolicyPassesCashFlowThrough ==
    (pc = "month" /\ MonthSimulated /\ mode \in Modes) =>
        /\ log.income = log.scenario_out[1]
        /\ mode \in {"balanced", "experimental"} =>
            /\ log.expenses = log.scenario_out[2]
            /\ log.raw_balance
                 = RAdd(log.balance_before, RSub(log.scenario_out[1], log.scenario_out[2]))

\* a balanced month with savings: the goals grow, the balance gets the whole surplus
C22_Witness ==
    /\ MonthSimulated
    /\ mode = "balanced"
    /\ log.savings = R(250)
    /\ log.balance_before = R(1000)
    /\ log.raw_balance = R(2000)
    /\ \E id \in DOMAIN log.progress : RLess(log.progress_before[id], log.progress[id])

\* a month inside the job-loss window
C23_JobLossMonth ==
    /\ pc = "month"
    /\ MonthSimulated
    /\ scenario = "job_loss"
    /\ log.month \in 3..5

C24_StartProgress ==
    [id \in {user_data.goals[k].id : k \in DOMAIN user_data.goals} |->
        user_data.goals[CHOOSE k \in DOMAIN user_data.goals :
                            user_data.goals[k].id = id /\ KeptGoal(k)].current_amount]

\* balance and progress after the months 0..m-1 of a trajectory that starts from
\* the profile and draws the noise draws[1], draws[2], ... in this order
RECURSIVE C24_AfterMonths(_, _)
C24_AfterMonths(m, draws) ==
    IF m <= 0 THEN <<user_data.current_balance, C24_StartProgress>>
    ELSE LET before == C24_AfterMonths(m - 1, draws)
             step == MonthStep(user_data, scenario, mode, m - 1, before[1], before[2],
                               draws[2 * m - 1], draws[2 * m])
         IN  <<step.balance, step.progress>>

\* the draws of the k-th iteration of a call: two for each of its months
C24_DrawsOf(k) ==
    LET months == IF duration_months < 0 THEN 0 ELSE duration_months
    IN  SubSeq(stream, 2 * months * (k - 1) + 1, 2 * months * k)

(* C24: no iteration reads what another wrote: every trajectory starts     *)
(* from the profile's balance and the goals' current_amount, and its       *)
(* outcome is determined by the profile, the scenario, the mode, the       *)
(* duration and its own noise draws, so the order the iterations run in    *)
(* does not change the outcomes collected.                                 *)
C24_IterationsIndependent ==
    (pc = "loop" /\ IterationReturned) =>
        LET k == Len(results)
            end == C24_AfterMonths(duration_months, C24_DrawsOf(k))
        IN  /\ k = i
            /\ LastOutcome.final_balance = end[1]
            /\ goal_progress = end[2]
            /\ LastOutcome.goal_completion = GoalCompletion(user_data.goals, end[2])

\* a second iteration on random noise has returned an outcome that differs from
\* the first one's, after the first one had moved the goals and the balance
C24_Witness ==
    /\ pc = "loop"
    /\ sampler = "uniform"
    /\ Len(results) = 2
    /\ user_data.goals # <<>>
    /\ results[1].final_balance # user_data.current_balance
    /\ results[1].final_balance # results[2].final_balance
    /\ results[1].goal_completion # results[2].goal_completion

\* the balance after the months 0..m-1 of the running iteration had no policy been
\* applied: the same noise draws, the scenario, the balance update and the floor
RECURSIVE C25_BalanceWithoutPolicy(_)
C25_BalanceWithoutPolicy(m) ==
    IF m <= 0 THEN user_data.current_balance
    ELSE LET drawn == 2 * duration_months * i + 2 * (m - 1)
             scen == ApplyScenario(scenario, m - 1,
                        RMul(user_data.avg_monthly_income, RAdd(One, stream[drawn + 1])),
                        RMul(user_data.avg_monthly_expenses, RAdd(One, stream[drawn + 2])))
             raw == RAdd(C25_BalanceWithoutPolicy(m - 1), RSub(scen[1], scen[2]))
         IN  IF RLess(raw, R(-1000)) THEN R(-1000) ELSE raw

\* a month of a running conservative trajectory on an income that is not negative
C25_ConservativeMonth ==
    /\ pc = "month"
    /\ MonthSimulated
    /\ mode = "conservative"
    /\ RLeq(Zero, user_data.avg_monthly_income)

(* C25: in conservative mode with income >= 0 the balance changes, before  *)
(* the floor, by income - expenses + 0.20 x income: the saved amount goes  *)
(* to the goals and is also added to the balance, so with the same noise   *)
(* draws the balance after each month is >= the balance the trajectory     *)
(* would have with no policy.                                              *)
C25_ConservativeSavingsRaiseBalance ==
    C25_ConservativeMonth =>
        LET income == log.scenario_out[1]
            expenses == log.scenario_out[2]
            saved == RMul(Rat(1, 5), income)
        IN  /\ log.savings = saved
            /\ log.raw_balance
                 = RAdd(log.balance_before, RAdd(RSub(income, expenses), saved))
            /\ \A id \in DOMAIN log.progress :
                  RLeq(log.progress_before[id], log.progress[id])
            /\ (RLess(Zero, saved) /\ UniqueGoalIds) =>
                  \A id \in DOMAIN log.progress :
                      log.progress[id]
                        = RAdd(log.progress_before[id],
                               RDiv(saved, R(Len(user_data.goals))))
            /\ RLeq(C25_BalanceWithoutPolicy(log.month + 1), log.balance)

\* a later month with random noise: the goals got the savings and the balance is
\* above the one without a policy
C25_Witness ==
    /\ C25_ConservativeMonth
    /\ sampler = "uniform"
    /\ log.month >= 1
    /\ RLess(Zero, log.savings)
    /\ user_data.goals # <<>>
    /\ \A id \in DOMAIN log.progress : RLess(log.progress_before[id], log.progress[id])
    /\ RLess(C25_BalanceWithoutPolicy(log.month + 1), log.balance)

\* the month ended with the balance pinned at the floor
C26_PinnedAtFloor ==
    /\ MonthSimulated
    /\ RLess(log.raw_balance, R(-1000))
    /\ log.balance = R(-1000)

(* C26: the goal contributions do not depend on the balance: in a month    *)
(* that ends pinned at the -1000 floor the goals still get the month's     *)
(* full savings, so the progress can grow in every month of a trajectory   *)
(* whose balance never rises above -1000.                                  *)
C26_ContributionsIgnoreBalance ==
    /\ (C26_PinnedAtFloor /\ UniqueGoalIds) =>
          \A k \in DOMAIN user_data.goals :
              log.progress[user_data.goals[k].id]
                = RAdd(log.progress_before[user_data.goals[k].id],
                       RDiv(log.savings, R(Len(user_data.goals))))
    /\ (pc = "month" /\ MonthSimulated) =>
          \A b \in {R(-1000), R(100000)} :
              LET other == MonthStep(user_data, scenario, mode, log.month, b,
                                     log.progress_before, log.noise[1], log.noise[2])
              IN  other.savings = log.savings /\ other.progress = log.progress

\* the last month of a year spent at or below the floor on no income: experimental
\* mode has added 150 to the goal in each of the 12 months
C26_Witness ==
    /\ C26_PinnedAtFloor
    /\ user_data = Profile(-2000, 0, 3000, <<Goal(1, 10000, 0)>>)
    /\ mode = "experimental"
    /\ log.month = 11
    /\ log.balance_before = R(-1000)
    /\ log.savings = R(150)
    /\ log.progress[1] = R(1800)

\* a call with a known scenario and a known mode has returned a result
KnownNamesResult ==
    /\ ResultReturned
    /\ scenario \in Scenarios
    /\ mode \in Modes

(* C27: for a profile without goals and any known scenario and mode, every *)
(* iteration reports completion 0, so the recommendation list has exactly  *)
(* 5 entries and ends with "Increase automatic goal contributions by 5%    *)
(* monthly".                                                               *)
C27_NoGoalsGetGoalSuggestion ==
    (KnownNamesResult /\ user_data.goals = <<>>) =>
        /\ \A k \in DOMAIN results : results[k].goal_completion = Zero
        /\ Len(SharedRecommendations) = 5
        /\ SharedRecommendations[5] = "Increase automatic goal contributions by 5% monthly"

\* a run without goals over several iterations of a month with random noise
C27_Witness ==
    /\ KnownNamesResult
    /\ user_data.goals = <<>>
    /\ sampler = "uniform"
    /\ duration_months >= 1
    /\ Len(results) >= 2
    /\ SharedRecommendations[5] = "Increase automatic goal contributions by 5% monthly"

(* C28: over the 4 known scenarios and 3 known modes the worst band has no *)
(* action exactly when the scenario is market_dip or big_purchase and the  *)
(* mode balanced or experimental, and the best band has none exactly when  *)
(* the scenario is job_loss or big_purchase and the mode conservative.     *)
C28_EmptyBands ==
    KnownNamesResult =>
        /\ LastResult.scenarios[1].recommended_actions = <<>>
             <=> /\ scenario \in {"market_dip", "big_purchase"}
                 /\ mode \in {"balanced", "experimental"}
        /\ LastResult.scenarios[3].recommended_actions = <<>>
             <=> /\ scenario \in {"job_loss", "big_purchase"}
                 /\ mode = "conservative"

\* big_purchase under balanced: nothing for the worst band, one action for the best
C28_Witness ==
    /\ KnownNamesResult
    /\ scenario = "big_purchase"
    /\ mode = "balanced"
    /\ LastResult.scenarios[1].recommended_actions = <<>>
    /\ LastResult.scenarios[3].recommended_actions
         = << "Round up transactions to nearest $10, invest difference" >>

\* the list _generate_recommendations has built when it reaches its return
C29_Built(sc, md, goal_completions) ==
    ScenarioRecommendations(sc, user_data.avg_monthly_income)
        \o ModeRecommendations(md)
        \o GoalRecommendations(goal_completions)

(* C29: the truncation to 5 entries removes nothing: for every scenario    *)
(* name, mode name and list of completions at most 5 entries are built,    *)
(* and for a known scenario and mode the list returned has exactly 4       *)
(* entries when the mean completion is >= 0.5 and exactly 5 otherwise.     *)
C29_TruncationRemovesNothing ==
    ResultReturned =>
        /\ \A sc \in ScenarioNames :
              Len(ScenarioRecommendations(sc, user_data.avg_monthly_income)) <= 2
        /\ \A md \in ModeNames : Len(ModeRecommendations(md)) <= 2
        /\ \A completions \in {GoalCompletions(results), <<>>} :
              /\ Len(GoalRecommendations(completions)) <= 1
              /\ Len(C29_Built(scenario, mode, completions)) <= 5
              /\ GenerateRecommendations(user_data, scenario, mode, Zero, completions)
                   = C29_Built(scenario, mode, completions)
        /\ SharedRecommendations
             = C29_Built(scenario, mode, GoalCompletions(results))
        /\ KnownNamesResult =>
              Len(SharedRecommendations)
                = (IF RLeq(Rat(Len(results), 2), RSum(GoalCompletions(results)))
                   THEN 4 ELSE 5)

\* a known scenario and mode with a mean completion of at least 0.5: 4 entries
C29_Witness ==
    /\ KnownNamesResult
    /\ sampler = "uniform"
    /\ Len(results) >= 2
    /\ RLeq(Rat(Len(results), 2), RSum(GoalCompletions(results)))
    /\ Len(SharedRecommendations) = 4

====
